---- MODULE Spec2Model ----
(***************************************************************************)
(* API error diagnosis tool: the probing and classification engine of      *)
(* src/src/main.js (diagnose, probeEndpoint, runWithConcurrency,           *)
(* runDiagnostics).                                                        *)
(*                                                                         *)
(* Every action is one run-to-completion segment of the JavaScript event   *)
(* loop: the code that runs between two awaits.  The transport             *)
(* (fetchImpl), the timers and the clock are the environment; their        *)
(* outcomes are chosen nondeterministically from the sets the injected     *)
(* transport allows.                                                       *)
(*                                                                         *)
(* Optional JavaScript values (null / undefined / a value) are encoded as  *)
(* None == << >> and Some(v) == << v >>.  Texts (error messages, response  *)
(* bodies) are tuples of characters, so that the regular-expression tests  *)
(* and the snippet truncation are computed as the code computes them.      *)
(***************************************************************************)
EXTENDS Integers, Sequences, FiniteSets, TLC

\* ------------------------------------------------------------------ bounds

MaxEndpoints == 3
MaxLimit == 3
MaxProbeRetries == 2
LimitBelow == 1

\* ------------------------------------------------------- optional values

None == << >>

Some(v) == << v >>

IsSome(o) == Len(o) = 1

Val(o) == o[1]

valueOrDefault(v, def) == IF v = None THEN def ELSE v

\* ------------------------------------------------------------------ texts

MsgMissingUrl ==
    <<"M", "i", "s", "s", "i", "n", "g", " ", "U", "R", "L">>

MsgAborted ==
    <<"T", "h", "e", " ", "o", "p", "e", "r", "a", "t", "i", "o", "n", " ",
      "w", "a", "s", " ", "a", "b", "o", "r", "t", "e", "d">>

MsgNotFound ==
    <<"E", "N", "O", "T", "F", "O", "U", "N", "D", " ", "x">>

MsgRefused ==
    <<"c", "o", "n", "n", "e", "c", "t", " ", "E", "C", "O", "N", "N", "R",
      "E", "F", "U", "S", "E", "D">>

MsgHangUp ==
    <<"s", "o", "c", "k", "e", "t", " ", "h", "a", "n", "g", " ", "u", "p">>

MsgTerminated ==
    <<"t", "e", "r", "m", "i", "n", "a", "t", "e", "d">>

MsgBadUrl ==
    <<"I", "n", "v", "a", "l", "i", "d", " ", "U", "R", "L">>

BodyEmpty == << >>

BodyJson ==
    <<"{", "}">>

BodyBoom ==
    <<"i", "n", "t", "e", "r", "n", "a", "l", " ", "e", "r", "r", "o", "r">>

BodyHint ==
    <<"m", "i", "s", "s", "i", "n", "g", " ", "r", "e", "q", "u", "i", "r",
      "e", "d", " ", "f", "i", "e", "l", "d">>

\* The patterns of the regular expressions of diagnose, as written there.
PatAbort == <<"a", "b", "o", "r", "t">>

PatEnotfound == <<"E", "N", "O", "T", "F", "O", "U", "N", "D">>

PatDns == <<"D", "N", "S">>

PatGetaddrinfo == <<"g", "e", "t", "a", "d", "d", "r", "i", "n", "f", "o">>

PatEconnrefused ==
    <<"E", "C", "O", "N", "N", "R", "E", "F", "U", "S", "E", "D">>

PatEconnreset == <<"E", "C", "O", "N", "N", "R", "E", "S", "E", "T">>

PatInvalid == <<"i", "n", "v", "a", "l", "i", "d">>

PatMissing == <<"m", "i", "s", "s", "i", "n", "g">>

PatRequired == <<"r", "e", "q", "u", "i", "r", "e", "d">>

PatSchema == <<"s", "c", "h", "e", "m", "a">>

PatFormat == <<"f", "o", "r", "m", "a", "t">>

\* The /i flag: both sides are compared in lower case.
UpperToLower ==
    ("A" :> "a") @@ ("B" :> "b") @@ ("C" :> "c") @@ ("D" :> "d") @@
    ("E" :> "e") @@ ("F" :> "f") @@ ("G" :> "g") @@ ("H" :> "h") @@
    ("I" :> "i") @@ ("J" :> "j") @@ ("K" :> "k") @@ ("L" :> "l") @@
    ("M" :> "m") @@ ("N" :> "n") @@ ("O" :> "o") @@ ("P" :> "p") @@
    ("Q" :> "q") @@ ("R" :> "r") @@ ("S" :> "s") @@ ("T" :> "t") @@
    ("U" :> "u") @@ ("V" :> "v") @@ ("W" :> "w") @@ ("X" :> "x") @@
    ("Y" :> "y") @@ ("Z" :> "z")

LowerCase(c) == IF c \in DOMAIN UpperToLower THEN UpperToLower[c] ELSE c

\* /pattern/i.test(text): the pattern occurs somewhere in the text.
RegexTest(pattern, text) ==
    \E i \in 1..(Len(text) - Len(pattern) + 1) :
        \A j \in 1..Len(pattern) :
            LowerCase(text[i + j - 1]) = LowerCase(pattern[j])

\* ------------------------------------------------------- program constants

SlowThresholdMs == 1500
SnippetMax == 600
BackoffStepMs == 500
DefaultTimeoutMs == 8000
DefaultRetries == 1

\* The one-character ellipsis followed by "[truncated]".
TruncationMarker ==
    <<"...", "[", "t", "r", "u", "n", "c", "a", "t", "e", "d", "]">>

\* ---------------------------------------------------------------- diagnose

Diagnosis(issue, severity) == [issue |-> issue, severity |-> severity]

\* Mutant: the patterns are tried in the opposite order.
diagnoseErrorReversed(message) ==
    IF \/ RegexTest(PatEconnrefused, message)
       \/ RegexTest(PatEconnreset, message)
    THEN Diagnosis("Connection Refused/Reset", "High")
    ELSE IF \/ RegexTest(PatEnotfound, message)
            \/ RegexTest(PatDns, message)
            \/ RegexTest(PatGetaddrinfo, message)
    THEN Diagnosis("DNS/Host Resolution Failure", "High")
    ELSE IF RegexTest(PatAbort, message)
    THEN Diagnosis("Timeout", "High")
    ELSE Diagnosis("Network/Client Error", "High")

\* The branch "if (error)": the tests of error.message, in the order of
\* the code.
diagnoseError(message) ==
    IF RegexTest(PatAbort, message)
    THEN Diagnosis("Timeout", "High")
    ELSE IF \/ RegexTest(PatEnotfound, message)
            \/ RegexTest(PatDns, message)
            \/ RegexTest(PatGetaddrinfo, message)
    THEN Diagnosis("DNS/Host Resolution Failure", "High")
    ELSE IF \/ RegexTest(PatEconnrefused, message)
            \/ RegexTest(PatEconnreset, message)
    THEN Diagnosis("Connection Refused/Reset", "High")
    ELSE Diagnosis("Network/Client Error", "High")

\* Mutant: a validation hint in the body raises the severity.
clientErrorSeverityByHint(hasValidationWord) ==
    IF hasValidationWord THEN "High" ELSE "Medium"

\* severity: hasValidationWord ? "Medium" : "Medium"
clientErrorSeverity(hasValidationWord) ==
    IF hasValidationWord THEN "Medium" ELSE "Medium"

\* diagnose(params): params.error, params.status, params.textSnippet and
\* params.latencyMs are optional values.  The recommendation strings are
\* fixed per issue and are left out of the record.
diagnose(params) ==
    IF IsSome(params.error)
    THEN diagnoseError(Val(params.error).message)
    ELSE IF IsSome(params.status)
    THEN LET status == Val(params.status) IN
         IF status >= 200 /\ status < 300
         THEN IF IsSome(params.latencyMs) /\ Val(params.latencyMs) > SlowThresholdMs
              THEN Diagnosis("Slow Response", "Medium")
              ELSE Diagnosis("OK", "Low")
         ELSE IF status >= 500
         THEN Diagnosis("Server Error (5xx)", "High")
         ELSE IF status = 429
         THEN Diagnosis("Rate Limited (429)", "Medium")
         ELSE IF status = 401 \/ status = 403
         THEN Diagnosis("Auth/Permission Error", "High")
         ELSE IF status >= 400
         THEN LET snippetForTest == valueOrDefault(params.textSnippet, Some(BodyEmpty))
                  hasValidationWord ==
                      \/ RegexTest(PatInvalid, Val(snippetForTest))
                      \/ RegexTest(PatMissing, Val(snippetForTest))
                      \/ RegexTest(PatRequired, Val(snippetForTest))
                      \/ RegexTest(PatSchema, Val(snippetForTest))
                      \/ RegexTest(PatFormat, Val(snippetForTest))
              IN Diagnosis("Client Error (4xx)",
                           clientErrorSeverity(hasValidationWord))
         ELSE Diagnosis("Unknown", "Medium")
    ELSE Diagnosis("Unknown", "Medium")

Error(message) == [message |-> message]


\* ----------------------------------------------------------- probeEndpoint

\* An EndpointSpec: every field is optional (headers and body are only
\* forwarded to the transport and are left out).
Endpoint(name, method, url, expectedStatus) ==
    [name |-> name, method |-> method, url |-> url,
     expectedStatus |-> expectedStatus]

\* const method = (endpoint && endpoint.method) ? endpoint.method : "GET"
MethodOf(endpoint) ==
    IF IsSome(endpoint.method) THEN Val(endpoint.method) ELSE "GET"

\* The result of the missing-URL fast path.
MissingUrlResult(endpoint) ==
    [name |-> IF IsSome(endpoint.name) THEN Val(endpoint.name)
              ELSE "(missing name)",
     method |-> MethodOf(endpoint),
     url |-> endpoint.url,
     ok |-> FALSE,
     status |-> None,
     latencyMs |-> None,
     error |-> Some(Error(MsgMissingUrl)),
     diagnosis |-> diagnose([error |-> Some(Error(MsgMissingUrl)),
                             status |-> None, textSnippet |-> None,
                             latencyMs |-> None]),
     textSnippet |-> None,
     expectedStatus |-> valueOrDefault(endpoint.expectedStatus, None),
     attemptCount |-> 0]

\* if (text && text.length > 600) textSnippet = text.slice(0, 600) + marker
SnippetOf(text) ==
    IF Len(text) > SnippetMax
    THEN SubSeq(text, 1, SnippetMax) \o TruncationMarker
    ELSE text

\* Mutant: the expected status is not looked at.
OkOfStatusOnly(status, expectedStatus) == status >= 200 /\ status < 300

\* let ok = (status >= 200 && status < 300);
\* if (ok && expectedStatus set) ok = ok && (status === expectedStatus)
OkOf(status, expectedStatus) ==
    LET ok == status >= 200 /\ status < 300 IN
    IF ok /\ IsSome(expectedStatus)
    THEN ok /\ status = Val(expectedStatus)
    ELSE ok

\* Mutant: the success path reports the configured number of attempts.
ResponseAttemptCountConfigured(attempt, options) == options.retries + 1

\* attemptCount of the result built from a response.
ResponseAttemptCount(attempt, options) == attempt

\* The result returned from inside the try block, once the body is read.
ResponseResult(endpoint, options, attempt, status, latencyMs, text) ==
    [name |-> IF IsSome(endpoint.name) THEN Val(endpoint.name)
              ELSE Val(endpoint.url),
     method |-> MethodOf(endpoint),
     url |-> endpoint.url,
     ok |-> OkOf(status, endpoint.expectedStatus),
     status |-> Some(status),
     latencyMs |-> Some(latencyMs),
     error |-> None,
     diagnosis |-> diagnose([error |-> None, status |-> Some(status),
                             textSnippet |-> Some(SnippetOf(text)),
                             latencyMs |-> Some(latencyMs)]),
     textSnippet |-> Some(SnippetOf(text)),
     expectedStatus |-> valueOrDefault(endpoint.expectedStatus, None),
     attemptCount |-> ResponseAttemptCount(attempt, options)]

\* attemptCount of the result built after the loop: options.retries + 1.
ExhaustedAttemptCount(attempt, options) == options.retries + 1

\* The result returned after the loop ("All attempts failed").
ExhaustedResult(endpoint, options, attempt, lastError) ==
    [name |-> IF IsSome(endpoint.name) THEN Val(endpoint.name) ELSE "(error)",
     method |-> MethodOf(endpoint),
     url |-> endpoint.url,
     ok |-> FALSE,
     status |-> None,
     latencyMs |-> None,
     error |-> lastError,
     diagnosis |-> diagnose([error |-> lastError, status |-> None,
                             textSnippet |-> None, latencyMs |-> None]),
     textSnippet |-> None,
     expectedStatus |-> valueOrDefault(endpoint.expectedStatus, None),
     attemptCount |-> ExhaustedAttemptCount(attempt, options)]

\* One call of probeEndpoint: the position of the async function (pc), its
\* locals (attempt, lastError, the aborted flag of the current attempt's
\* AbortController, the response whose body is being read) and, once it
\* has returned, the value its promise resolved with.
\*   pc: "idle" not called yet, "fetch" awaiting withTimeout(fetchImpl(..)),
\*       "text" awaiting res.text(), "sleep" awaiting sleep(500 * attempt),
\*       "returned" promise resolved, "done" result stored by the pool.
\* caught and mixed are history: the attempt and the error that the catch
\* block was last entered with, and whether it was ever entered with an
\* error other than the one before.
Task(pc, endpoint, attempt, lastError, aborted, res, result) ==
    [pc |-> pc, endpoint |-> endpoint, attempt |-> attempt,
     lastError |-> lastError, aborted |-> aborted, res |-> res,
     result |-> result, caught |-> None, mixed |-> FALSE]

IdleTask == Task("idle", None, 0, None, FALSE, None, None)

\* Mutant: the loop allows one attempt more.
LoopConditionExtra(attempt, options) == attempt <= options.retries + 1

\* Mutant: the loop stops one attempt early.
LoopConditionStrict(attempt, options) == attempt < options.retries

\* while (attempt <= retries)
LoopCondition(attempt, options) == attempt <= options.retries

\* Mutant: the catch block sleeps after every failed attempt.
BackoffConditionAlways(attempt, options) == TRUE

\* if (attempt <= retries) await sleep(500 * attempt)
BackoffCondition(attempt, options) == attempt <= options.retries

\* sleep(500 * attempt)
BackoffMs(attempt) == BackoffStepMs * attempt

\* Mutant: the last error is thrown instead of being returned as a result.
AfterLoopThrows(t, options) == [t EXCEPT !.pc = "rejected", !.res = None]

\* The code after the loop: build the exhausted result and return.
AfterLoop(t, options) ==
    [t EXCEPT !.pc = "returned", !.res = None,
              !.result = Some(ExhaustedResult(Val(t.endpoint), options,
                                              t.attempt, t.lastError))]

\* History of the catch block: the attempt that failed and its error.
Caught(t, err) == Some([attempt |-> t.attempt, error |-> err])

Mixed(t, err) == t.mixed \/ (t.caught # None /\ Val(t.caught).error # err)

\* Mutant: lastError keeps the first error that was caught.
CatchBlockFirstError(t, options, err) ==
    LET c == [t EXCEPT !.lastError = IF @ = None THEN Some(err) ELSE @,
                       !.res = None,
                       !.caught = Caught(t, err),
                       !.mixed = Mixed(t, err)] IN
    IF BackoffCondition(c.attempt, options)
    THEN [c EXCEPT !.pc = "sleep"]
    ELSE AfterLoop(c, options)

\* catch (err): remember the error, then either sleep before the next
\* attempt or, on the final attempt, fall out of the loop.
CatchBlock(t, options, err) ==
    LET c == [t EXCEPT !.lastError = Some(err), !.res = None,
                       !.caught = Caught(t, err),
                       !.mixed = Mixed(t, err)] IN
    IF BackoffCondition(c.attempt, options)
    THEN [c EXCEPT !.pc = "sleep"]
    ELSE IF LoopCondition(c.attempt, options)
    THEN \* The loop would go on without a sleep; both conditions are the
         \* same expression in the code, so this branch is never taken.
         [c EXCEPT !.pc = "fetch", !.attempt = c.attempt + 1,
                   !.aborted = FALSE]
    ELSE AfterLoop(c, options)

\* Mutant: the loop is not entered, as with a negative number of retries.
AttemptLoopSkipped(t, options, sync) == AfterLoop(t, options)

\* Mutant: one AbortController is made before the loop and used by every
\* attempt.
AttemptLoopSharedController(t, options, sync) ==
    IF LoopCondition(t.attempt, options)
    THEN LET a == [t EXCEPT !.attempt = t.attempt + 1] IN
         IF sync = None
         THEN [a EXCEPT !.pc = "fetch"]
         ELSE CatchBlock(a, options, Val(sync))
    ELSE AfterLoop(t, options)

\* The head of the loop and the start of an attempt: attempt++, a new
\* AbortController, and the call of fetchImpl, which either returns a
\* promise (sync = None) or throws synchronously (sync = Some(error)).
AttemptLoop(t, options, sync) ==
    IF LoopCondition(t.attempt, options)
    THEN LET a == [t EXCEPT !.attempt = t.attempt + 1, !.aborted = FALSE] IN
         IF sync = None
         THEN [a EXCEPT !.pc = "fetch"]
         ELSE CatchBlock(a, options, Val(sync))
    ELSE AfterLoop(t, options)

\* Mutant: the URL is not checked before the attempt loop.
probeEndpointUnchecked(endpoint, options, sync) ==
    AttemptLoop(Task("idle", Some(endpoint), 0, None, FALSE, None, None),
                options, sync)

\* probeEndpoint(endpoint, options, fetchImpl) up to its first await.
probeEndpoint(endpoint, options, sync) ==
    IF endpoint.url = None
    THEN Task("returned", Some(endpoint), 0, None, FALSE, None,
              Some(MissingUrlResult(endpoint)))
    ELSE AttemptLoop(Task("idle", Some(endpoint), 0, None, FALSE, None, None),
                     options, sync)


\* ------------------------------------------------------------------- state

VARIABLES
    endpoints,  \* the endpoint list given to runDiagnostics
    options,    \* the merged options: concurrency, retries, timeout
    fetchImpl,  \* the injected transport: the outcomes it can produce
    run,        \* runDiagnostics: "ready", "running", "resolved", "rejected"
    idx,        \* runWithConcurrency: the shared cursor
    results,    \* runWithConcurrency: the results array (None is a hole)
    returned,   \* the array runDiagnostics resolved with
    workers,    \* per starter: the index it holds (1-based), 0 once it ended
    task,       \* per endpoint: the probeEndpoint call made for it
    timers,     \* the armed timers of withTimeout: <<endpoint, attempt>>
    calls,      \* history: number of worker calls per endpoint
    completed,  \* history: the slots of results in the order they were written
    log,        \* history: per endpoint, the requests, failures, responses
                \* and backoff sleeps of its call, in order
    diagParams, \* the argument of a direct call of diagnose (None: no call)
    diagResult  \* the value that call returned (None: not returned yet)

vars == <<endpoints, options, fetchImpl, run, idx, results, returned,
          workers, task, timers, calls, completed, log, diagParams,
          diagResult>>

\* The variables of a direct call of diagnose, which the probing engine
\* leaves alone.
diagVars == <<diagParams, diagResult>>

N == Len(endpoints)

Min(a, b) == IF a <= b THEN a ELSE b

\* What a call of fetchImpl can do synchronously: return a promise (None)
\* or throw.
SyncChoices ==
    {None} \cup {Some(Error(m)) : m \in fetchImpl.syncThrows}

\* The latency measured for a response: below the timeout while the timer
\* of the attempt is armed, at least the timeout once it has fired.
LatencyChoices(t) ==
    {l \in fetchImpl.latencies : t.aborted <=> (l >= options.timeout)}

\* withTimeout: const timer = setTimeout(function () { controller.abort() })
SetTimer(tm, i, attempt) == tm \cup {<<i, attempt>>}

\* withTimeout: promise.finally(function () { clearTimeout(timer) })
ClearTimer(tm, i, attempt) == tm \ {<<i, attempt>>}

\* The timers after a segment of probeEndpoint that left the call of
\* endpoint i in state after: an attempt that is awaiting its request has
\* armed its timer.
ArmTimer(tm, i, after) ==
    IF after.pc = "fetch" THEN SetTimer(tm, i, after.attempt) ELSE tm

\* The events of the history log.
Event(type, n) == [type |-> type, n |-> n]

\* The events of a catch block that handled the failure of attempt k and
\* left the call in state after.
CatchLog(k, after) ==
    <<Event("failure", k)>> \o
    (IF after.pc = "sleep" THEN <<Event("sleep", BackoffMs(after.attempt))>>
     ELSE IF after.pc = "fetch" THEN <<Event("request", after.attempt)>>
     ELSE << >>)

\* The events of a segment that ran the head of the loop from state before
\* and left the call in state after: one call of fetchImpl if an attempt
\* was started, and the catch block if that call threw.
LoopLog(before, after) ==
    IF after.attempt = before.attempt THEN << >>
    ELSE <<Event("request", after.attempt)>> \o
         (IF after.pc = "fetch" THEN << >>
          ELSE CatchLog(after.attempt, after))

\* --------------------------------------------------------- runWithConcurrency

\* Mutant: one starter per item, whatever the limit.
StarterCountPerItem(limit, n) == n

\* Array(Math.min(limit, items.length)): the number of starters; a negative
\* length makes Array throw a RangeError.
StarterCount(limit, n) == Min(limit, n)

\* if (idx >= items.length) return
Exhausted(cursor, n) == cursor >= n

\* Mutant: the cursor is read but not incremented.
AdvanceStuck(cursor) == cursor

\* const current = idx++   (the slot claimed, 1-based, and the new cursor)
Claimed(cursor) == cursor + 1

Advance(cursor) == cursor + 1

\* Mutant: results.push(value), which stores in completion order.
StorePushed(res, current, value) ==
    LET hole == CHOOSE i \in DOMAIN res :
                    res[i] = None /\ \A j \in DOMAIN res : j < i => res[j] # None
    IN [res EXCEPT ![hole] = Some(value)]

\* results[current] = await worker(items[current], current)
Store(res, current, value) == [res EXCEPT ![current] = Some(value)]

\* items[current]
Item(items, current) == items[current]

\* The length of the JavaScript array: one past its last written slot.
ArrayLength(res) ==
    IF \A i \in DOMAIN res : res[i] = None THEN 0
    ELSE CHOOSE i \in DOMAIN res :
             res[i] # None /\ \A j \in DOMAIN res : j > i => res[j] = None

\* return results
ReturnValue(res) == [i \in 1..ArrayLength(res) |-> res[i]]

\* runDiagnostics(endpoints, options, fetchImpl) up to its first await:
\* runWithConcurrency starts Math.min(limit, items.length) starters, each
\* of which runs next() up to its await: it claims an index and calls
\* probeEndpoint, which runs up to its own first await.
RunDiagnostics ==
    /\ run = "ready"
    /\ LET count == StarterCount(options.concurrency, N) IN
       IF count < 0
       THEN /\ run' = "rejected"
            /\ UNCHANGED <<idx, results, returned, workers, task, timers,
                           calls, completed, log>>
       ELSE \E sync \in [1..count -> SyncChoices] :
            LET claim == [w \in 1..count |-> Claimed(w - 1)]
                slots == {claim[w] : w \in 1..count} \cap (1..N)
                started == [i \in slots |->
                    probeEndpoint(Item(endpoints, i), options,
                        sync[CHOOSE w \in 1..count : claim[w] = i])]
            IN /\ run' = "running"
               /\ idx' = IF count = 0 THEN idx ELSE Advance(count - 1)
               /\ workers' = claim
               /\ task' = [i \in 1..N |->
                              IF i \in slots THEN started[i] ELSE task[i]]
               /\ timers' = {<<i, started[i].attempt>> :
                                i \in {j \in slots : started[j].pc = "fetch"}}
               /\ calls' = [i \in 1..N |->
                               calls[i] + Cardinality({w \in 1..count : claim[w] = i})]
               /\ log' = [i \in 1..N |->
                             IF i \in slots
                             THEN log[i] \o LoopLog(IdleTask, started[i])
                             ELSE log[i]]
               /\ UNCHANGED <<results, returned, completed>>
    /\ UNCHANGED <<endpoints, options, fetchImpl, diagVars>>

\* The continuation of next() after "await worker(...)".  If the call's
\* promise rejected, the await throws: the starter rejects, and with it
\* Promise.all and runDiagnostics.  Otherwise the result is stored at the
\* claimed index and next() is called again, which either ends the starter
\* or claims the next index and calls probeEndpoint for it.
Resume(w) ==
    /\ run = "running"
    /\ workers[w] \in 1..N
    /\ task[workers[w]].pc \in {"returned", "rejected"}
    /\ LET current == workers[w]
           stored == [task EXCEPT ![current].pc = "done"]
       IN IF task[current].pc = "rejected"
          THEN /\ run' = "rejected"
               /\ workers' = [workers EXCEPT ![w] = 0]
               /\ UNCHANGED <<idx, results, task, timers, calls, completed,
                              log>>
          ELSE /\ run' = run
               /\ results' = Store(results, current, Val(task[current].result))
               /\ completed' = Append(completed, current)
               /\ IF Exhausted(idx, N)
                  THEN /\ workers' = [workers EXCEPT ![w] = 0]
                       /\ task' = stored
                       /\ UNCHANGED <<idx, timers, calls, log>>
                  ELSE \E sync \in SyncChoices :
                       LET i == Claimed(idx)
                           after == probeEndpoint(Item(endpoints, i), options,
                                                  sync)
                       IN /\ idx' = Advance(idx)
                          /\ workers' = [workers EXCEPT ![w] = i]
                          /\ task' = [stored EXCEPT ![i] = after]
                          /\ timers' = ArmTimer(timers, i, after)
                          /\ calls' = [calls EXCEPT ![i] = @ + 1]
                          /\ log' = [log EXCEPT
                                        ![i] = @ \o LoopLog(IdleTask, after)]
    /\ UNCHANGED <<endpoints, options, fetchImpl, returned, diagVars>>

\* await Promise.all(starters); return results
Return ==
    /\ run = "running"
    /\ \A w \in DOMAIN workers : workers[w] = 0
    /\ run' = "resolved"
    /\ returned' = Some(ReturnValue(results))
    /\ UNCHANGED <<endpoints, options, fetchImpl, idx, results, workers,
                   task, timers, calls, completed, log, diagVars>>

\* ------------------------------------------------- probeEndpoint's segments

\* Mutant: sleep is a busy wait, so that no call runs a segment while
\* another call sleeps.
SegmentWhileNobodySleeps(i, after, events) ==
    /\ \A j \in 1..N : j # i => task[j].pc # "sleep"
    /\ task' = [task EXCEPT ![i] = after]
    /\ log' = [log EXCEPT ![i] = @ \o events]
    /\ UNCHANGED <<endpoints, options, fetchImpl, run, idx, results,
                   returned, workers, calls, completed, diagVars>>

\* A segment of the call for endpoint i that ends in state after and adds
\* events to the history.
Segment(i, after, events) ==
    /\ task' = [task EXCEPT ![i] = after]
    /\ log' = [log EXCEPT ![i] = @ \o events]
    /\ UNCHANGED <<endpoints, options, fetchImpl, run, idx, results,
                   returned, workers, calls, completed, diagVars>>

\* The transport resolves with a response: the timer is cleared, latency
\* and status are taken, and the call awaits res.text().
Responds(i) ==
    /\ task[i].pc = "fetch"
    /\ \E status \in fetchImpl.responses, latencyMs \in LatencyChoices(task[i]) :
          Segment(i, [task[i] EXCEPT
                         !.pc = "text",
                         !.res = Some([status |-> status,
                                       latencyMs |-> latencyMs])],
                  << >>)
    /\ timers' = ClearTimer(timers, i, task[i].attempt)

\* The transport rejects: the timer is cleared and the catch block runs.
Rejects(i) ==
    /\ task[i].pc = "fetch"
    /\ \E m \in fetchImpl.rejects :
          LET after == CatchBlock(task[i], options, Error(m)) IN
          /\ Segment(i, after, CatchLog(task[i].attempt, after))
          /\ timers' = ArmTimer(ClearTimer(timers, i, task[i].attempt), i, after)

\* The timer of attempt k of endpoint i expires: controller.abort().  A
\* transport that honours the signal rejects the request with an abort
\* error; one that ignores it leaves the request in flight.
TimerFires(i, k) ==
    /\ <<i, k>> \in timers
    /\ IF task[i].pc = "fetch" /\ task[i].attempt = k
       THEN IF fetchImpl.honoursAbort
            THEN LET after == CatchBlock([task[i] EXCEPT !.aborted = TRUE],
                                         options, Error(MsgAborted))
                 IN /\ Segment(i, after, CatchLog(k, after))
                    /\ timers' = ArmTimer(ClearTimer(timers, i, k), i, after)
            ELSE /\ Segment(i, [task[i] EXCEPT !.aborted = TRUE], << >>)
                 /\ timers' = ClearTimer(timers, i, k)
       ELSE /\ timers' = ClearTimer(timers, i, k)
            /\ UNCHANGED <<endpoints, options, fetchImpl, run, idx, results,
                           returned, workers, task, calls, completed, log,
                           diagVars>>

\* Mutant: a 5xx response is treated as a failed attempt and retried.
AfterTextRetryServerError(t, opts, text) ==
    IF Val(t.res).status >= 500
    THEN CatchBlock(t, opts, Error(BodyBoom))
    ELSE [t EXCEPT !.pc = "returned",
                   !.res = None,
                   !.result = Some(ResponseResult(
                       Val(t.endpoint), opts, t.attempt, Val(t.res).status,
                       Val(t.res).latencyMs, text))]

\* The code after "await res.text()": snippet, diagnosis, ok, and the
\* return of the result, whatever the status.
AfterText(t, opts, text) ==
    [t EXCEPT !.pc = "returned",
              !.res = None,
              !.result = Some(ResponseResult(
                  Val(t.endpoint), opts, t.attempt, Val(t.res).status,
                  Val(t.res).latencyMs, text))]

\* res.text() resolves: the response is complete.
TextResolves(i) ==
    /\ task[i].pc = "text"
    /\ \E text \in fetchImpl.bodies :
          LET after == AfterText(task[i], options, text) IN
          /\ Segment(i, after,
                     <<Event("response", task[i].attempt)>> \o
                     (IF after.pc = "returned" THEN << >>
                      ELSE CatchLog(task[i].attempt, after)))
          /\ timers' = ArmTimer(timers, i, after)

\* res.text() rejects: the catch block runs.
TextRejects(i) ==
    /\ task[i].pc = "text"
    /\ \E m \in fetchImpl.bodyErrors :
          LET after == CatchBlock(task[i], options, Error(m)) IN
          /\ Segment(i, after, CatchLog(task[i].attempt, after))
          /\ timers' = ArmTimer(timers, i, after)

\* The backoff sleep ends: the loop condition is tested again and the next
\* attempt starts.
SleepEnds(i) ==
    /\ task[i].pc = "sleep"
    /\ \E sync \in SyncChoices :
          LET after == AttemptLoop(task[i], options, sync) IN
          /\ Segment(i, after, LoopLog(task[i], after))
          /\ timers' = ArmTimer(timers, i, after)

Next ==
    \/ RunDiagnostics
    \/ \E w \in DOMAIN workers : Resume(w)
    \/ Return
    \/ \E i \in 1..N : Responds(i)
    \/ \E i \in 1..N : Rejects(i)
    \/ \E i \in 1..N, k \in 1..(options.retries + 1) : TimerFires(i, k)
    \/ \E i \in 1..N : TextResolves(i)
    \/ \E i \in 1..N : TextRejects(i)
    \/ \E i \in 1..N : SleepEnds(i)

\* ------------------------------------------------------------------ inputs

\* An injected transport: the statuses and latencies of its responses, the
\* errors it rejects with, the errors it throws on the call, the bodies it
\* delivers, the errors of a failed body read, and whether it honours the
\* abort signal.
Transport(statuses, lats, rejs, throws, texts, textErrs, honours) ==
    [responses |-> statuses, latencies |-> lats, rejects |-> rejs,
     syncThrows |-> throws, bodies |-> texts, bodyErrors |-> textErrs,
     honoursAbort |-> honours]

EpOk == Endpoint(Some("ok"), Some("GET"), Some("https://x/ok"), Some(200))

EpBad == Endpoint(None, None, Some("https://x/bad"), None)

EpNoUrl == Endpoint(Some("nourl"), Some("POST"), None, None)

EpCreated == Endpoint(None, Some("POST"), Some("https://x/new"), Some(201))

Catalogue == <<EpOk, EpBad, EpNoUrl, EpCreated>>

\* The first n endpoints of the catalogue, repeated cyclically.
Prefix(n) ==
    [i \in 1..n |-> Catalogue[((i - 1) % Len(Catalogue)) + 1]]

InitWith(lists, limits, retries, transports) ==
    /\ endpoints \in lists
    /\ options \in [concurrency : limits, retries : retries,
                    timeout : {DefaultTimeoutMs}]
    /\ fetchImpl \in transports
    /\ run = "ready"
    /\ idx = 0
    /\ results = [i \in 1..N |-> None]
    /\ returned = None
    /\ workers = << >>
    /\ task = [i \in 1..N |-> IdleTask]
    /\ timers = {}
    /\ calls = [i \in 1..N |-> 0]
    /\ completed = << >>
    /\ log = [i \in 1..N |-> << >>]
    /\ diagParams = None
    /\ diagResult = None

\* The pool: up to MaxEndpoints endpoints, options within the documented
\* contract (concurrency >= 1, retries >= 0: the value of the test and the
\* default), and a transport that answers 200, throws on the call, fails
\* to resolve the host, breaks off the body, or hangs until the timeout
\* aborts it.
PoolTransports ==
    {Transport({200}, {120}, {MsgNotFound}, {MsgBadUrl}, {BodyJson},
               {MsgTerminated}, TRUE)}

Init ==
    InitWith({Prefix(n) : n \in 0..MaxEndpoints}, 1..MaxLimit,
             {0, DefaultRetries}, PoolTransports)

Spec == Init /\ [][Next]_vars

\* The pool with any integer limit, also zero and negative ones.
InitAnyLimit ==
    InitWith({Prefix(n) : n \in 0..MaxEndpoints}, (0 - LimitBelow)..MaxLimit,
             {0, DefaultRetries}, PoolTransports)

SpecAnyLimit == InitAnyLimit /\ [][Next]_vars

\* One endpoint probed alone, with every kind of endpoint, retries from 0
\* to MaxProbeRetries, and transports that answer with several statuses,
\* latencies and bodies, fail in several ways, and honour the abort signal
\* or ignore it.
BodyLong == [i \in 1..(SnippetMax + 1) |-> "x"]

ProbeTransports ==
    {Transport({200, 201, 301, 404, 500}, {120, 1501, 9000},
               {MsgNotFound, MsgRefused}, {MsgBadUrl},
               {BodyEmpty, BodyHint, BodyLong}, {MsgTerminated}, h) :
        h \in BOOLEAN}

InitProbe ==
    InitWith({<<e>> : e \in {EpOk, EpBad, EpNoUrl, EpCreated}}, {1},
             0..MaxProbeRetries, ProbeTransports)

SpecProbe == InitProbe /\ [][Next]_vars

\* ------------------------------------------------------------------ claims

HasResult(i) == task[i].result # None

ResultOf(i) == Val(task[i].result)

\* The number of events of a type in the history of endpoint i.
Count(type, i) ==
    Cardinality({p \in DOMAIN log[i] : log[i][p].type = type})

\* The number of times slot i of results was written.
Writes(i) ==
    Cardinality({p \in DOMAIN completed : completed[p] = i})

\* The endpoints whose worker call has been made and whose result is not
\* stored yet.
InFlight == {i \in 1..N : task[i].pc \notin {"idle", "done"}}

\* C1: when runDiagnostics resolves, the returned array has one slot per
\* endpoint and slot i holds the result that the probeEndpoint call made
\* for endpoints[i] produced, whatever the order of completion.
C1_OrderPreserved ==
    run = "resolved" =>
        LET out == Val(returned) IN
        /\ Len(out) = N
        /\ \A i \in 1..N :
              /\ IsSome(out[i])
              /\ out[i] = task[i].result
              /\ task[i].endpoint = Some(endpoints[i])
              /\ Val(out[i]).url = endpoints[i].url

\* Scenario F: three endpoints, limit 2, the second one completes last.
C1_Witness ==
    /\ run = "resolved"
    /\ N = 3
    /\ options.concurrency = 2
    /\ completed = <<1, 3, 2>>

\* C2: the number of endpoints whose worker call has started and whose
\* result is not stored yet never exceeds the concurrency limit.
C2_ConcurrencyBound == Cardinality(InFlight) <= options.concurrency

\* The bound is reached while an endpoint waits for a worker and another
\* one sleeps in backoff.
C2_Witness ==
    /\ N = 3
    /\ options.concurrency = 2
    /\ Cardinality(InFlight) = 2
    /\ task[3].pc = "idle"
    /\ \E i \in 1..N : task[i].pc = "sleep"

\* C3: every index is claimed by exactly one starter: probeEndpoint is
\* called at most once per endpoint and exactly for the indices below the
\* cursor, no two starters hold the same index, every slot is written at
\* most once, and when the run resolves every endpoint was called once and
\* every slot written once.
C3_ClaimedExactlyOnce ==
    /\ \A i \in 1..N : calls[i] = (IF i <= idx THEN 1 ELSE 0)
    /\ \A i \in 1..N : Writes(i) <= calls[i]
    /\ \A v, w \in DOMAIN workers :
          (v # w /\ workers[v] # 0) => workers[v] # workers[w]
    /\ run = "resolved" => \A i \in 1..N : calls[i] = 1 /\ Writes(i) = 1

\* A run of three endpoints with two starters has resolved.
C3_Witness ==
    /\ run = "resolved"
    /\ N = 3
    /\ options.concurrency = 2
    /\ idx = 3

\* C4: runDiagnostics never rejects and no probeEndpoint call rejects: a
\* call that has ended has a result, and when the run resolves the returned
\* array holds, in each of the N positions, the result of that endpoint's
\* own call.
C4_NeverRejects ==
    /\ run # "rejected"
    /\ \A i \in 1..N :
          /\ task[i].pc # "rejected"
          /\ task[i].pc \in {"returned", "done"} => HasResult(i)
    /\ run = "resolved" =>
          /\ Len(Val(returned)) = N
          /\ \A i \in 1..N :
                IsSome(Val(returned)[i]) /\ Val(returned)[i] = task[i].result

\* An endpoint has exhausted its two attempts and a sibling's result is ok.
C4_Witness ==
    /\ run = "resolved"
    /\ options.retries = 1
    /\ \E i, j \in 1..N :
          /\ i # j
          /\ Count("failure", i) = 2
          /\ IsSome(Val(returned)[i]) /\ IsSome(Val(Val(returned)[i]).error)
          /\ IsSome(Val(returned)[j]) /\ Val(Val(returned)[j]).ok

\* C5: for a non-empty endpoint list and any integer limit, the run starts
\* between 1 and N starters and does not reject, and when it resolves every
\* endpoint was probed.
C5_LimitClamped ==
    (run # "ready" /\ N >= 1) =>
        /\ run # "rejected"
        /\ Len(workers) >= 1
        /\ Len(workers) <= N
        /\ run = "resolved" => \A i \in 1..N : calls[i] = 1

\* C6: the attemptCount of every result equals the number of calls of
\* fetchImpl made for the endpoint, and is 0 only if the URL is absent.
C6_AttemptCountIsRequests ==
    \A i \in 1..N :
        HasResult(i) =>
            /\ ResultOf(i).attemptCount = Count("request", i)
            /\ ResultOf(i).attemptCount = 0 => endpoints[i].url = None

\* A response on the second attempt while a third attempt was allowed.
C6_Witness ==
    \E i \in 1..N :
        /\ HasResult(i)
        /\ options.retries = 2
        /\ ResultOf(i).attemptCount = 2
        /\ IsSome(ResultOf(i).status)

\* C7: ok is true exactly when the call ended with a response whose status
\* is in [200, 300) and equal to expectedStatus if that is set; a result
\* with an error has ok = false.
C7_OkIffAcceptable ==
    \A i \in 1..N :
        HasResult(i) =>
            LET r == ResultOf(i)
                expected == endpoints[i].expectedStatus
            IN /\ r.ok <=>
                      /\ Count("response", i) > 0
                      /\ IsSome(r.status)
                      /\ Val(r.status) >= 200
                      /\ Val(r.status) < 300
                      /\ (expected = None \/ Val(expected) = Val(r.status))
               /\ IsSome(r.error) => ~r.ok

\* A 2xx status that differs from the expected status.
C7_Witness ==
    \E i \in 1..N :
        /\ HasResult(i)
        /\ ResultOf(i).status = Some(200)
        /\ endpoints[i].expectedStatus = Some(201)
        /\ ~ResultOf(i).ok

\* C8: a call for an endpoint with a URL that ended without any response
\* made retries + 1 calls of fetchImpl, each of which failed, and its
\* result has attemptCount = retries + 1, ok = false and no status and no
\* latency.
C8_ExhaustedAfterAllAttempts ==
    \A i \in 1..N :
        (HasResult(i) /\ endpoints[i].url # None /\ Count("response", i) = 0) =>
            /\ Count("request", i) = options.retries + 1
            /\ Count("failure", i) = options.retries + 1
            /\ ResultOf(i).attemptCount = options.retries + 1
            /\ ~ResultOf(i).ok
            /\ ResultOf(i).status = None
            /\ ResultOf(i).latencyMs = None
            /\ IsSome(ResultOf(i).error)

\* Three failed attempts with retries = 2.
C8_Witness ==
    \E i \in 1..N :
        /\ HasResult(i)
        /\ options.retries = 2
        /\ Count("failure", i) = 3
        /\ ResultOf(i).attemptCount = 3
        /\ ResultOf(i).status = None

\* C9: a call for an endpoint without a URL has returned as soon as it was
\* made: no request, no sleep, no timer, and a result with attemptCount 0,
\* ok = false, no status, the error "Missing URL" and the diagnosis of that
\* error.
C9_MissingUrlFastPath ==
    \A i \in 1..N :
        (endpoints[i].url = None /\ task[i].pc # "idle") =>
            /\ task[i].pc \in {"returned", "done"}
            /\ log[i] = << >>
            /\ \A k \in 0..(options.retries + 1) : <<i, k>> \notin timers
            /\ HasResult(i)
            /\ ResultOf(i).attemptCount = 0
            /\ ~ResultOf(i).ok
            /\ ResultOf(i).status = None
            /\ ResultOf(i).error = Some(Error(MsgMissingUrl))
            /\ ResultOf(i).diagnosis =
                   diagnose([error |-> Some(Error(MsgMissingUrl)),
                             status |-> None, textSnippet |-> None,
                             latencyMs |-> None])
            /\ ResultOf(i).diagnosis.issue = "Network/Client Error"

\* The result of an endpoint without a URL is stored, with retries = 2.
C9_Witness ==
    \E i \in 1..N :
        /\ endpoints[i].url = None
        /\ options.retries = 2
        /\ task[i].pc = "done"

\* C10: a response (status and body) on attempt k is the last event of the
\* call: the call has returned, k calls of fetchImpl and k - 1 sleeps were
\* made, and the result has attemptCount = k and the status received.
C10_ResponseEndsLoop ==
    \A i \in 1..N :
        \A p \in DOMAIN log[i] :
            log[i][p].type = "response" =>
                /\ p = Len(log[i])
                /\ task[i].pc \in {"returned", "done"}
                /\ HasResult(i)
                /\ ResultOf(i).attemptCount = log[i][p].n
                /\ IsSome(ResultOf(i).status)
                /\ Count("request", i) = log[i][p].n
                /\ Count("sleep", i) = log[i][p].n - 1

\* A 500 response on the second attempt while a third one was allowed.
C10_Witness ==
    \E i \in 1..N :
        /\ options.retries = 2
        /\ log[i] # << >>
        /\ log[i][Len(log[i])] = Event("response", 2)
        /\ HasResult(i)
        /\ ResultOf(i).status = Some(500)

\* C11: no attempt stays in flight after its timer has expired: a call that
\* awaits its request has not seen the timer of that attempt expire, and no
\* response is taken from an attempt whose timer has expired.
C11_TimeoutEndsAttempt ==
    \A i \in 1..N :
        /\ task[i].pc = "fetch" => ~task[i].aborted
        /\ task[i].pc = "text" => Val(task[i].res).latencyMs < options.timeout

\* ---------------------------------------------------------------- fairness

\* The scheduling the runtime guarantees: a continuation whose promise has
\* settled is run (RunDiagnostics, Resume, Return), and a timer that was set
\* and not cleared expires (TimerFires, SleepEnds).  Nothing in the code
\* makes the injected transport settle a request or a body read.
FairSpec ==
    /\ Spec
    /\ WF_vars(RunDiagnostics)
    /\ WF_vars(\E w \in DOMAIN workers : Resume(w))
    /\ WF_vars(Return)
    /\ \A i \in 1..MaxEndpoints, k \in 1..(DefaultRetries + 1) :
          WF_vars(i \in 1..N /\ TimerFires(i, k))
    /\ \A i \in 1..MaxEndpoints : WF_vars(i \in 1..N /\ SleepEnds(i))

\* C12: every run terminates: eventually runDiagnostics has resolved, every
\* call is Done and none made more than retries + 1 requests.
C12_RunTerminates ==
    <>(/\ run = "resolved"
       /\ \A i \in 1..N :
             task[i].pc = "done" /\ Count("request", i) <= options.retries + 1)

\* --------------------------------------------------- direct calls of diagnose

\* "read ECONNRESET"
MsgReset ==
    <<"r", "e", "a", "d", " ", "E", "C", "O", "N", "N", "R", "E", "S",
      "E", "T">>

\* "getaddrinfo EAI_AGAIN"
MsgLookup ==
    <<"g", "e", "t", "a", "d", "d", "r", "i", "n", "f", "o", " ", "E",
      "A", "I", "_", "A", "G", "A", "I", "N">>

\* "dns lookup aborted"
MsgDnsAborted ==
    <<"d", "n", "s", " ", "l", "o", "o", "k", "u", "p", " ", "a", "b",
      "o", "r", "t", "e", "d">>

\* "request aborted: ECONNRESET"
MsgResetAborted ==
    <<"r", "e", "q", "u", "e", "s", "t", " ", "a", "b", "o", "r", "t",
      "e", "d", ":", " ", "E", "C", "O", "N", "N", "R", "E", "S", "E",
      "T">>

\* "getaddrinfo ECONNREFUSED"
MsgLookupRefused ==
    <<"g", "e", "t", "a", "d", "d", "r", "i", "n", "f", "o", " ", "E",
      "C", "O", "N", "N", "R", "E", "F", "U", "S", "E", "D">>

\* "AbortError: ENOTFOUND ECONNRESET"
MsgAllPatterns ==
    <<"A", "b", "o", "r", "t", "E", "r", "r", "o", "r", ":", " ", "E",
      "N", "O", "T", "F", "O", "U", "N", "D", " ", "E", "C", "O", "N",
      "N", "R", "E", "S", "E", "T">>

\* The errors a direct call is given: none, or an Error whose message matches
\* no pattern, one pattern, or several.
DiagnoseErrors ==
    {None} \cup
    {Some(Error(m)) :
        m \in {MsgMissingUrl, MsgHangUp, MsgAborted, MsgNotFound, MsgLookup,
               MsgRefused, MsgReset, MsgDnsAborted, MsgResetAborted,
               MsgLookupRefused, MsgAllPatterns}}

\* The statuses: none, and numbers at and around the limits of the rules.
DiagnoseStatuses ==
    {None} \cup
    {Some(s) : s \in {199, 200, 204, 299, 300, 399, 400, 401, 403, 404,
                      429, 499, 500, 503}}

\* The latencies: none, and numbers at and around the threshold.
DiagnoseLatencies ==
    {None} \cup
    {Some(l) : l \in {0, SlowThresholdMs, SlowThresholdMs + 1, 9000}}

\* The body snippets: none, empty, without and with a validation word.
DiagnoseSnippets ==
    {None, Some(BodyEmpty), Some(BodyBoom), Some(BodyHint)}

DiagnoseInputs ==
    [error : DiagnoseErrors, status : DiagnoseStatuses,
     textSnippet : DiagnoseSnippets, latencyMs : DiagnoseLatencies]

\* diagnose is about to be called with one of the inputs; no run is made.
InitDiagnose ==
    /\ endpoints = << >>
    /\ options = [concurrency |-> 1, retries |-> DefaultRetries,
                  timeout |-> DefaultTimeoutMs]
    /\ fetchImpl \in PoolTransports
    /\ run = "ready"
    /\ idx = 0
    /\ results = << >>
    /\ returned = None
    /\ workers = << >>
    /\ task = << >>
    /\ timers = {}
    /\ calls = << >>
    /\ completed = << >>
    /\ log = << >>
    /\ diagParams \in {Some(p) : p \in DiagnoseInputs}
    /\ diagResult = None

\* const d = diagnose(params)
Diagnose ==
    /\ IsSome(diagParams)
    /\ diagResult = None
    /\ diagResult' = Some(diagnose(Val(diagParams)))
    /\ UNCHANGED <<endpoints, options, fetchImpl, run, idx, results,
                   returned, workers, task, timers, calls, completed, log,
                   diagParams>>

NextDiagnose == Diagnose

SpecDiagnose == InitDiagnose /\ [][NextDiagnose]_vars

\* ------------------------------------------------------ claims about diagnose

DiagnoseReturned == IsSome(diagParams) /\ IsSome(diagResult)

\* C13: for an input without an error and with a numeric status, diagnose
\* returns: for 200-299 Slow Response/Medium if the latency is above 1500
\* and OK/Low otherwise (1500 included); for 500 and above Server Error
\* (5xx)/High; for 429 Rate Limited (429)/Medium; for 401 and 403
\* Auth/Permission Error/High; for any other status from 400 Client Error
\* (4xx)/Medium, whatever the body snippet.
C13_StatusRules ==
    (DiagnoseReturned /\ Val(diagParams).error = None
                      /\ IsSome(Val(diagParams).status)) =>
        LET p == Val(diagParams)
            s == Val(p.status)
            d == Val(diagResult)
            success == s >= 200 /\ s <= 299
            slow == IsSome(p.latencyMs) /\ Val(p.latencyMs) > 1500
        IN /\ (success /\ slow) => d = Diagnosis("Slow Response", "Medium")
           /\ (success /\ ~slow) => d = Diagnosis("OK", "Low")
           /\ s >= 500 => d = Diagnosis("Server Error (5xx)", "High")
           /\ s = 429 => d = Diagnosis("Rate Limited (429)", "Medium")
           /\ s \in {401, 403} => d = Diagnosis("Auth/Permission Error", "High")
           /\ (s >= 400 /\ s < 500 /\ s \notin {401, 403, 429}) =>
                 d = Diagnosis("Client Error (4xx)", "Medium")

\* Scenario D: a 400 whose body holds validation words.
C13_Witness ==
    /\ DiagnoseReturned
    /\ Val(diagParams).error = None
    /\ Val(diagParams).status = Some(400)
    /\ Val(diagParams).textSnippet = Some(BodyHint)
    /\ Val(diagParams).latencyMs = Some(1500)
    /\ Val(diagResult) = Diagnosis("Client Error (4xx)", "Medium")

\* The issue the precedence of the patterns gives each message of the inputs:
\* a message naming an abort is a Timeout whatever else it names, then a
\* message naming ENOTFOUND, DNS or getaddrinfo is a resolution failure, then
\* one naming ECONNREFUSED or ECONNRESET is a refused or reset connection.
ExpectedIssue(message) ==
    IF message \in {MsgAborted, MsgDnsAborted, MsgResetAborted, MsgAllPatterns}
    THEN "Timeout"
    ELSE IF message \in {MsgNotFound, MsgLookup, MsgLookupRefused}
    THEN "DNS/Host Resolution Failure"
    ELSE IF message \in {MsgRefused, MsgReset}
    THEN "Connection Refused/Reset"
    ELSE "Network/Client Error"

\* C14: for an input with an error, diagnose returns the issue of the first
\* matching pattern of the message (abort, then DNS resolution, then
\* connection refused or reset, else Network/Client Error) with severity
\* High, whatever the status, latency and snippet of the input are.
C14_ErrorPrecedence ==
    (DiagnoseReturned /\ IsSome(Val(diagParams).error)) =>
        Val(diagResult) =
            Diagnosis(ExpectedIssue(Val(Val(diagParams).error).message), "High")

\* A message that matches all three patterns, in an input whose status is
\* 200, is a Timeout.
C14_Witness ==
    /\ DiagnoseReturned
    /\ Val(diagParams).error = Some(Error(MsgAllPatterns))
    /\ Val(diagParams).status = Some(200)
    /\ Val(diagResult) = Diagnosis("Timeout", "High")

\* ------------------------------------------------- claims about probeEndpoint

\* C16: the result of an endpoint that has a URL is named by the endpoint's
\* name if it has one and by its URL otherwise, whether the call ended with
\* a response or after all attempts failed.
C16_NameDefaultsToUrl ==
    \A i \in 1..N :
        (HasResult(i) /\ endpoints[i].url # None) =>
            ResultOf(i).name = (IF IsSome(endpoints[i].name)
                                THEN Val(endpoints[i].name)
                                ELSE Val(endpoints[i].url))

\* C17: a result with ok = false never has the diagnosis issue "OK".
C17_FailureIsDiagnosed ==
    \A i \in 1..N :
        (HasResult(i) /\ ~ResultOf(i).ok) => ResultOf(i).diagnosis.issue # "OK"

\* C18: in the history of every call, a failed attempt k <= retries is
\* followed at once by one sleep of 500 * k ms and, once the sleep has
\* ended, by the request of attempt k + 1; a failed attempt k = retries + 1
\* and a response are the last event of the call; every sleep follows a
\* failed attempt, the call is asleep exactly while a sleep is its last
\* event, and a call for an endpoint without a URL never sleeps.
C18_BackoffBetweenAttempts ==
    \A i \in 1..N :
        LET h == log[i] IN
        /\ \A p \in DOMAIN h :
              /\ (h[p].type = "failure" /\ h[p].n <= options.retries) =>
                    /\ p < Len(h)
                    /\ h[p + 1] = Event("sleep", 500 * h[p].n)
                    /\ p + 1 < Len(h) => h[p + 2] = Event("request", h[p].n + 1)
              /\ (h[p].type = "failure" /\ h[p].n > options.retries) =>
                    /\ h[p].n = options.retries + 1
                    /\ p = Len(h)
              /\ h[p].type = "response" => p = Len(h)
              /\ h[p].type = "sleep" => (p > 1 /\ h[p - 1].type = "failure")
              /\ (h[p].type = "request" /\ h[p].n > 1) =>
                    (p > 1 /\ h[p - 1] = Event("sleep", 500 * (h[p].n - 1)))
        /\ task[i].pc = "sleep" <=> (h # << >> /\ h[Len(h)].type = "sleep")
        /\ endpoints[i].url = None => Count("sleep", i) = 0

\* Three failed attempts with retries = 2: sleeps of 500 and 1000 ms, and
\* none after the last failure.
C18_Witness ==
    \E i \in 1..N :
        /\ options.retries = 2
        /\ HasResult(i)
        /\ Len(log[i]) = 8
        /\ log[i][2] = Event("failure", 1)
        /\ log[i][3] = Event("sleep", 500)
        /\ log[i][5] = Event("failure", 2)
        /\ log[i][6] = Event("sleep", 1000)
        /\ log[i][8] = Event("failure", 3)

\* The steps of the call made for endpoint j: a segment of probeEndpoint, or
\* the continuation of the worker that awaits it.
StepOf(j) ==
    \/ Responds(j)
    \/ Rejects(j)
    \/ \E k \in 1..(options.retries + 1) : TimerFires(j, k)
    \/ TextResolves(j)
    \/ TextRejects(j)
    \/ SleepEnds(j)
    \/ \E w \in DOMAIN workers : workers[w] = j /\ Resume(w)

Sleeping(i) == task[i].pc = "sleep"

\* C19, as claimed: while endpoint i sleeps in backoff, every other endpoint
\* that is not Done can go on without that sleep ending: a claimed one has
\* a step enabled, and an unclaimed one has a worker to claim it other than
\* the worker that awaits the sleeping call.
C19_SleepBlocksNobody ==
    \A i, j \in 1..N :
        (i # j /\ Sleeping(i) /\ task[j].pc # "done") =>
            IF task[j].pc = "idle"
            THEN \E w \in DOMAIN workers : workers[w] \notin {0, i}
            ELSE ENABLED StepOf(j)

\* C19, amended: while endpoint i sleeps in backoff, every other endpoint
\* that a worker has claimed and that is not Done has a step enabled.
C19_SleepBlocksNoClaimed ==
    \A i, j \in 1..N :
        (i # j /\ Sleeping(i) /\ j \in InFlight) => ENABLED StepOf(j)

\* One call sleeps while another one reads a body, with a step enabled.
C19_Witness ==
    \E i, j \in 1..N :
        /\ Sleeping(i)
        /\ task[j].pc = "text"
        /\ ENABLED StepOf(j)

\* The timer of the attempt that the call for endpoint i is making.
OwnTimer(i) == <<i, task[i].attempt>>

\* C20: every armed timer belongs to the attempt that some call is awaiting
\* (it is cleared when the request settles, so none is left for a later
\* retry); the token of an attempt in flight is aborted exactly if that
\* attempt's own timer has expired, so it is fresh when the attempt starts;
\* and a token becomes aborted only in a step in which the timer of its own
\* attempt expires, a step that changes no other call.
C20_TokenPerAttempt ==
    /\ [](/\ timers \subseteq {OwnTimer(i) : i \in {j \in 1..N : task[j].pc = "fetch"}}
          /\ \A i \in 1..N :
                task[i].pc = "fetch" =>
                    (task[i].aborted <=> OwnTimer(i) \notin timers))
    /\ [][\A i \in 1..N :
             (~task[i].aborted /\ task'[i].aborted) =>
                 /\ task[i].pc = "fetch"
                 /\ OwnTimer(i) \in timers
                 /\ OwnTimer(i) \notin timers'
                 /\ \A j \in 1..N : j # i => task'[j] = task[j]]_vars

\* A second attempt, made after the first one was aborted by its timer, is
\* in flight with a token that is not aborted, while a sibling's request is
\* in flight too.
C20_Witness ==
    \E i, j \in 1..N :
        /\ i # j
        /\ task[i].pc = "fetch"
        /\ task[i].attempt = 2
        /\ task[i].lastError = Some(Error(MsgAborted))
        /\ ~task[i].aborted
        /\ OwnTimer(i) \in timers
        /\ task[j].pc = "fetch"
        /\ OwnTimer(j) \in timers

\* C21: the result of a call that ended without a response carries the
\* error that the catch block got on attempt retries + 1, and the diagnosis
\* of that error, also when earlier attempts failed with other errors.
C21_LastErrorReported ==
    \A i \in 1..N :
        (HasResult(i) /\ endpoints[i].url # None /\ Count("response", i) = 0) =>
            /\ task[i].caught # None
            /\ Val(task[i].caught).attempt = options.retries + 1
            /\ ResultOf(i).error = Some(Val(task[i].caught).error)
            /\ ResultOf(i).diagnosis =
                   diagnose([error |-> Some(Val(task[i].caught).error),
                             status |-> None, textSnippet |-> None,
                             latencyMs |-> None])

\* Three attempts failed with errors that were not all the same, and the
\* last one was aborted by its timer.
C21_Witness ==
    \E i \in 1..N :
        /\ options.retries = 2
        /\ HasResult(i)
        /\ Count("failure", i) = 3
        /\ task[i].mixed
        /\ ResultOf(i).error = Some(Error(MsgAborted))
        /\ ResultOf(i).diagnosis.issue = "Timeout"

\* C22: diagnose returns, for every input, a diagnosis whose severity is
\* Low, Medium or High, and the issue "Unknown" only for an input that has
\* neither an error nor a numeric status.
C22_UnknownOnlyWithoutStatus ==
    DiagnoseReturned =>
        /\ Val(diagResult).severity \in {"Low", "Medium", "High"}
        /\ Val(diagResult).issue = "Unknown" =>
              /\ Val(diagParams).error = None
              /\ Val(diagParams).status = None

\* The requests of endpoint i that were made and have neither failed nor
\* been answered yet.
Pending(i) == Count("request", i) - Count("failure", i) - Count("response", i)

\* The positions of the request events in the history of endpoint i.
RequestPositions(i) == {p \in DOMAIN log[i] : log[i][p].type = "request"}

\* C23: the attempts of an endpoint are sequential and bounded: at most one
\* request is pending, and one is pending exactly while the call awaits the
\* request or its body; the requests are numbered 1, 2, ... in order without
\* gaps; the request of attempt k + 1 directly follows the sleep that
\* followed the failure of attempt k; and no more than retries + 1 requests
\* are made.
C23_AttemptsSequential ==
    \A i \in 1..N :
        LET h == log[i] IN
        /\ Pending(i) \in {0, 1}
        /\ Pending(i) = 1 <=> task[i].pc \in {"fetch", "text"}
        /\ Count("request", i) <= options.retries + 1
        /\ task[i].attempt = Count("request", i)
        /\ \A p \in RequestPositions(i) :
              /\ h[p].n = Cardinality({q \in RequestPositions(i) : q <= p})
              /\ h[p].n > 1 =>
                    /\ p > 2
                    /\ h[p - 1].type = "sleep"
                    /\ h[p - 2] = Event("failure", h[p].n - 1)

\* The third attempt is in flight after two failed attempts and two sleeps.
C23_Witness ==
    \E i \in 1..N :
        /\ options.retries = 2
        /\ task[i].pc = "fetch"
        /\ Count("request", i) = 3
        /\ Count("failure", i) = 2
        /\ Count("sleep", i) = 2
        /\ Pending(i) = 1

\* C24: every result has one of two shapes: no error, with the status and
\* the latency of the response the call received; or an error, with no
\* status, no latency, no snippet and ok = false.
C24_TwoShapes ==
    \A i \in 1..N :
        HasResult(i) =>
            LET r == ResultOf(i) IN
            \/ /\ r.error = None
               /\ IsSome(r.status)
               /\ IsSome(r.latencyMs)
               /\ Count("response", i) = 1
            \/ /\ IsSome(r.error)
               /\ r.status = None
               /\ r.latencyMs = None
               /\ r.textSnippet = None
               /\ ~r.ok
               /\ Count("response", i) = 0

\* The last attempt received a status and then failed to read the body: the
\* result has the error and no status.
C24_Witness ==
    \E i \in 1..N :
        /\ HasResult(i)
        /\ options.retries = 1
        /\ task[i].caught = Some([attempt |-> 2, error |-> Error(MsgTerminated)])
        /\ ResultOf(i).error = Some(Error(MsgTerminated))
        /\ ResultOf(i).status = None
        /\ ResultOf(i).textSnippet = None

====
